---- MODULE Spec2Model ----
(***************************************************************************)
(* Model of the status-page monitor: the shared EventHandler (dedup set,   *)
(* normalizers, the two item handlers), the webhook receiver endpoints and *)
(* the RSS poller with its conditional-fetch state.                        *)
(*                                                                         *)
(* Scheduling model.  Everything runs on one asyncio event loop, so a      *)
(* coroutine runs without interruption until it really suspends.           *)
(* asyncio.Lock.acquire() returns at once when the lock is free, and the   *)
(* lock of EventHandler is only ever held across the await-free bodies of  *)
(* is_seen / mark_seen, so it is free at every acquisition: neither        *)
(* handle_webhook_event nor handle_rss_entry contains a point at which     *)
(* another coroutine can run.  Each handler call is therefore one action.  *)
(* The real suspension points are the HTTP request of fetch_feed, the body *)
(* read of fetch_feed, the timer sleep of poll_loop and the hand-off of a  *)
(* background task by the webhook endpoints.                               *)
(*                                                                         *)
(* Specifications.  SpecPush is the webhook receiver alone, SpecPoll the   *)
(* poller alone, SpecCross both in a reduced environment, SpecStop the     *)
(* poller with fair scheduling (for termination after stop), SpecCalls one *)
(* direct call of a verifier or of the push normalizer on an argument      *)
(* drawn by the initial state, and SpecHandler a sequence of direct calls  *)
(* of the EventHandler methods and the status endpoints.                   *)
(***************************************************************************)
EXTENDS Integers, Sequences, FiniteSets, TLC

-----------------------------------------------------------------------------
(* Bounds *)

MaxPush == 2        \* push requests accepted in one run
MaxCycles == 2      \* poll cycles started in one run
MaxCalls == 3       \* direct calls of EventHandler methods in one run

-----------------------------------------------------------------------------
(* Python / JSON values.  Every value is tagged with its type so that the  *)
(* type-dependent behaviour of the code (dict.get on a non-dict, joining a *)
(* non-string, hashing a list) can be modelled.                            *)

JStr(s) == [t |-> "str", v |-> s]
JInt(s) == [t |-> "int", v |-> s]
JList(q) == [t |-> "list", q |-> q]
JDict(d) == [t |-> "dict", d |-> d]

\* None (a missing header, a JSON null)
None == [t |-> "none"]
\* a header string made of the decimal digits of n
NumStr(n) == [t |-> "numstr", n |-> n]

\* str(x) as used by an f-string
Str(x) == CASE x.t = "none" -> "None"
            [] x.t = "numstr" -> ToString(x.n)
            [] OTHER -> x.v

\* dict.get(key, default) on a dict value
Get(obj, k, default) == IF k \in DOMAIN obj.d THEN obj.d[k] ELSE default

\* Python truthiness ("if not incident_id", "a or b"): the empty string, the
\* empty list, the empty dict, 0 and None are falsy.
Truthy(x) ==
    CASE x.t = "str" -> x.v # ""
      [] x.t = "int" -> x.v # "0"
      [] x.t = "list" -> x.q # << >>
      [] x.t = "dict" -> DOMAIN x.d # {}
      [] x.t = "none" -> FALSE
      [] x.t = "sig" -> x.prefix \o x.rest # ""
      [] OTHER -> TRUE

\* A value can be a member of / looked up in a Python set only if hashable.
Hashable(x) == x.t \in {"str", "int", "none"}

\* hashlib.md5(s).hexdigest(): modelled as an injective function of s.
Md5(s) == "md5:" \o s

\* Result of a piece of code that may raise.
Ok(x) == [raised |-> FALSE, value |-> x]
Raise(e) == [raised |-> TRUE, value |-> e]

-----------------------------------------------------------------------------
(* EventHandler: dedup store *)

\* is_seen: membership test under the lock; raises TypeError when the
\* identity is unhashable.
is_seen(seen, incident_id) ==
    IF Hashable(incident_id) THEN Ok(incident_id \in seen)
    ELSE Raise("TypeError")

\* The set replaced by the latest identity instead of extended by it.
mark_seen_latest(seen, incident_id) == {incident_id}

\* mark_seen: insertion under the lock.
mark_seen(seen, incident_id) == seen \cup {incident_id}

-----------------------------------------------------------------------------
(* EventHandler: normalizers and formatter *)

\* comp.get('name', str(comp)) for one element of affected_components
ComponentName(comp) == Get(comp, "name", JStr("{}"))

\* The incident record is event_data.data.incident, event_data.data or
\* event_data itself.  The only step that can raise is comp.get on a
\* component that is not a dict.  Of the normalized record the fields that
\* decide identity, output and failure are kept, and status and severity
\* (lines 39-40: the label of a dict; otherwise str() of the status, and
\* the empty string for the severity); description, link, event_type and
\* timestamp are plain look-ups with defaults (the date parse sits in a
\* bare try/except) and play no part in the control flow.
normalize_webhook_data(event_data, source_name) ==
    LET data == Get(event_data, "data", event_data)
        incident == Get(data, "incident", data)
        status == IF Get(incident, "status", None).t = "dict"
                  THEN Get(Get(incident, "status", JDict(<< >>)), "label",
                           JStr("Unknown"))
                  ELSE JStr(Str(Get(incident, "status", JStr("Unknown"))))
        severity == IF Get(incident, "severity", None).t = "dict"
                    THEN Get(Get(incident, "severity", JDict(<< >>)), "label",
                             JStr(""))
                    ELSE JStr("")
        comps == IF "affected_components" \in DOMAIN incident.d
                 THEN incident.d["affected_components"].q
                 ELSE << >>
    IN  IF \E i \in 1..Len(comps) : comps[i].t # "dict"
        THEN Raise("AttributeError")
        ELSE Ok([id |-> Get(incident, "id", JStr("")),
                 source |-> source_name,
                 source_type |-> "webhook",
                 title |-> Get(incident, "name",
                               Get(incident, "title", JStr("Unknown Incident"))),
                 status |-> status,
                 severity |-> severity,
                 components |-> [i \in 1..Len(comps) |-> ComponentName(comps[i])]])

\* The fallback identity computed from title, published and link.
normalize_rss_data_link(entry, source_name) ==
    LET id0 == Get(entry, "id", Get(entry, "guid", JStr("")))
        id_source == Get(entry, "title", JStr("")).v
                     \o Get(entry, "published", JStr("")).v
                     \o Get(entry, "link", JStr("")).v
        incident_id == IF Truthy(id0) THEN id0 ELSE JStr(Md5(id_source))
    IN  Ok([id |-> incident_id,
            source |-> source_name,
            source_type |-> "rss",
            title |-> Get(entry, "title", JStr("Unknown Incident")),
            components |-> << >>])

\* Identity is id, else guid, else the md5 of title + published.  The
\* components and the status are read from the description's markup and are
\* strings; the timestamp falls back to the current time.  They play no
\* part in identity or control flow and are left out of the record.
normalize_rss_data(entry, source_name) ==
    LET id0 == Get(entry, "id", Get(entry, "guid", JStr("")))
        id_source == Get(entry, "title", JStr("")).v \o Get(entry, "published", JStr("")).v
        incident_id == IF Truthy(id0) THEN id0 ELSE JStr(Md5(id_source))
    IN  Ok([id |-> incident_id,
            source |-> source_name,
            source_type |-> "rss",
            title |-> Get(entry, "title", JStr("Unknown Incident")),
            components |-> << >>])

\* ', '.join(incident['components']) raises TypeError unless every component
\* is a string.  The formatted text is represented by the fields it shows.
format_incident_output(incident) ==
    IF \E i \in 1..Len(incident.components) : incident.components[i].t # "str"
    THEN Raise("TypeError")
    ELSE Ok([id |-> incident.id, source |-> incident.source,
             source_type |-> incident.source_type])

-----------------------------------------------------------------------------
(* EventHandler: the two item handlers *)

\* Result of handling one item: the new dedup set, the events printed, the
\* terminal state of the item and whether an exception leaves the handler.
ItemResult(seen, out, outcome) ==
    [seen |-> seen, out |-> out, outcome |-> outcome]

\* The steps after normalization, identical in both handlers:
\* is_seen -> (return) | mark_seen -> print(format_incident_output).
check_mark_emit(seen, n) ==
    IF n.raised THEN ItemResult(seen, << >>, "raised")
    ELSE LET s == is_seen(seen, n.value.id)
         IN  IF s.raised THEN ItemResult(seen, << >>, "raised")
             ELSE IF s.value THEN ItemResult(seen, << >>, "dropped")
             ELSE LET marked == mark_seen(seen, n.value.id)
                      f == format_incident_output(n.value)
                  IN  IF f.raised THEN ItemResult(marked, << >>, "raised")
                      ELSE ItemResult(marked, << f.value >>, "emitted")

\* A handler without its try/except: the exception leaves the handler.
except_Exception_reraise(r) == r

\* "except Exception": the exception is printed and swallowed.
except_Exception(r) ==
    IF r.outcome = "raised" THEN [r EXCEPT !.outcome = "error"] ELSE r

handle_webhook_event(seen, event_data, source_name) ==
    except_Exception(
        check_mark_emit(seen, normalize_webhook_data(event_data, source_name)))

handle_rss_entry(seen, entry, source_name) ==
    except_Exception(
        check_mark_emit(seen, normalize_rss_data(entry, source_name)))

-----------------------------------------------------------------------------
(* webhook_server: signature verifiers *)

\* hmac.new(secret, content, sha256).hexdigest(): an injective function of
\* the key and the content.
Hmac(secret, content) == "hmac(" \o secret \o "," \o content \o ")"

Abs(n) == IF n < 0 THEN -n ELSE n

ReplayWindow == 300

\* A bytes value; utf8 tells whether decode('utf-8') succeeds on it.
Bytes(s) == [t |-> "bytes", utf8 |-> TRUE, v |-> s]

\* A webhook-signature header is modelled by its comma-separated tokens
\* ([t |-> "csv", q |-> tokens, ascii |-> for each token, whether all its
\* characters are ASCII]) or is None when the header is missing.  current_time is the value of
\* time.time() at the call.  After the try block nothing is caught:
\* payload.decode, "',' in None" and compare_digest on a non-ASCII string
\* raise.
verify_svix_signature(payload, webhook_id, webhook_timestamp, webhook_signature, secret, current_time) ==
    IF webhook_timestamp.t # "numstr" THEN Ok(FALSE)      \* ValueError / TypeError
    ELSE IF Abs(current_time - webhook_timestamp.n) > ReplayWindow THEN Ok(FALSE)
    ELSE IF ~payload.utf8 THEN Raise("UnicodeDecodeError")
    ELSE IF webhook_signature.t = "none" THEN Raise("TypeError")  \* ',' in None
    ELSE LET signed_content == Str(webhook_id) \o "." \o Str(webhook_timestamp)
                               \o "." \o payload.v
             expected_sig == Hmac(secret, signed_content)
             actual_sig == IF Len(webhook_signature.q) > 1
                           THEN webhook_signature.q[2]
                           ELSE webhook_signature.q[1]
             actual_ascii == IF Len(webhook_signature.q) > 1
                             THEN webhook_signature.ascii[2]
                             ELSE webhook_signature.ascii[1]
         IN  IF ~actual_ascii THEN Raise("TypeError")
             ELSE Ok(expected_sig = actual_sig)

\* An X-Signature header is modelled as [t |-> "sig", prefix, rest, ascii],
\* the prefix being "sha256=" or empty, or is None when the header is
\* missing.  The payload is used as bytes and is never decoded.
verify_hmac_signature(payload, signature, secret) ==
    IF signature.t = "none" THEN Raise("AttributeError")   \* None.startswith
    ELSE LET stripped == IF signature.prefix = "sha256=" THEN signature.rest
                         ELSE signature.prefix \o signature.rest
         IN  IF ~signature.ascii THEN Raise("TypeError")
             ELSE Ok(Hmac(secret, payload.v) = stripped)

\* "a or b" on header values
PyOr(a, b) == IF Truthy(a) THEN a ELSE b

-----------------------------------------------------------------------------
(* Inputs *)

\* Request bodies: raw text and, when the text is JSON, the parsed value.
\* Incident records may sit at the top level or under data.incident.
Body_flat_a == [raw |-> "p1", valid |-> TRUE,
                json |-> JDict([id |-> JStr("a"), name |-> JStr("API errors")])]
Body_nested_a == [raw |-> "p2", valid |-> TRUE,
                  json |-> JDict([data |-> JDict([incident |->
                      JDict([id |-> JStr("a"), name |-> JStr("API errors"),
                             affected_components |->
                                 JList(<< JDict([name |-> JStr("API")]) >>)])])])]
\* a component whose name is a number: the formatter's join raises
Body_numname_a == [raw |-> "p3", valid |-> TRUE,
                   json |-> JDict([id |-> JStr("a"),
                                   affected_components |->
                                       JList(<< JDict([name |-> JInt("1")]) >>)])]
\* a component that is a bare string: comp.get raises in the normalizer
Body_strcomp_a == [raw |-> "p4", valid |-> TRUE,
                   json |-> JDict([id |-> JStr("a"),
                                   affected_components |-> JList(<< JStr("API") >>)])]
\* no id anywhere
Body_noid == [raw |-> "p5", valid |-> TRUE,
              json |-> JDict([name |-> JStr("API errors")])]
\* not JSON
Body_malformed == [raw |-> "{", valid |-> FALSE, json |-> None]

PushBodies == {Body_flat_a, Body_nested_a, Body_numname_a, Body_strcomp_a,
               Body_noid, Body_malformed}

SharedSecret == "whsec"
Clock == {1000}

\* Header sets of a request to /webhook/incident-io at time now: correctly
\* signed, signed but older than the replay window, wrong signature, and
\* no signature header at all.
SvixHeaders(body, now) ==
    LET hdr(ts, sig) == JDict([x \in {"webhook-id", "webhook-timestamp"} |->
                                  IF x = "webhook-id" THEN JStr("msg1") ELSE NumStr(ts)]
                              @@ sig)
        good(ts) == Hmac(SharedSecret, "msg1." \o ToString(ts) \o "." \o body.raw)
        sigh(q) == [x \in {"webhook-signature"} |->
                       [t |-> "csv", q |-> q, ascii |-> [n \in 1..Len(q) |-> TRUE]]]
    IN  { hdr(now, sigh(<< "v1", good(now) >>)),
          hdr(now - ReplayWindow - 1, sigh(<< "v1", good(now - ReplayWindow - 1) >>)),
          hdr(now, sigh(<< "v1", "forged" >>)),
          hdr(now, << >>) }

\* Header sets of a request to /webhook/generic/{provider_name}.
GenericHeaders(body) ==
    LET sig(p, r) == [t |-> "sig", prefix |-> p, rest |-> r, ascii |-> TRUE]
    IN  { JDict([x \in {"X-Signature"} |-> sig("", Hmac(SharedSecret, body.raw))]),
          JDict([x \in {"X-Hub-Signature-256"} |->
                    sig("sha256=", Hmac(SharedSecret, body.raw))]),
          JDict([x \in {"X-Signature"} |-> sig("", "forged")]),
          JDict([x \in {"X-Signature", "X-Hub-Signature-256"} |->
                    IF x = "X-Signature" THEN sig("", "")
                    ELSE sig("sha256=", Hmac(SharedSecret, body.raw))]),
          JDict(<< >>) }

ProviderNames == {"acme"}

\* feed entries as the feed parser hands them over
Entry_a == JDict([id |-> JStr("a"), title |-> JStr("t1"), published |-> JStr("d1")])
Entry_b == JDict([guid |-> JStr("b"), title |-> JStr("t2")])
Entry_noid == JDict([title |-> JStr("t3"), published |-> JStr("d3")])
\* an entry whose id is a non-empty list: truthy, so it is kept as the
\* identity, and not hashable: the membership test raises
Entry_listid == JDict([id |-> JList(<< JStr("x") >>), title |-> JStr("t4")])
\* an entry whose id is the empty list: falsy, so the md5 fallback is taken
Entry_emptyid == JDict([id |-> JList(<< >>), title |-> JStr("t5")])

\* What fetch_feed returns as content: None, or the text of the response
\* body together with the entries the feed parser finds in it.
NoContent == [none |-> TRUE, text |-> "", entries |-> << >>]
Doc_empty == [none |-> FALSE, text |-> "", entries |-> << >>]
Doc_1 == [none |-> FALSE, text |-> "x1", entries |-> << Entry_listid, Entry_b >>]
Doc_2 == [none |-> FALSE, text |-> "x2", entries |-> << Entry_noid, Entry_a >>]
Docs == {Doc_empty, Doc_1, Doc_2}

\* validators a 200 response may carry
ETagValues == {"e1", "e2"}
LastModifiedValues == {"m1"}
ResponseHeaders ==
    { JDict(e @@ m) :
        e \in {<< >>} \cup { [x \in {"ETag"} |-> v] : v \in ETagValues },
        m \in {<< >>} \cup { [x \in {"Last-Modified"} |-> v] : v \in LastModifiedValues } }

Statuses == {200, 304, 404, 500}

feed_configs == << [name |-> "OpenAI", url |-> "u1"],
                   [name |-> "Feed2", url |-> "u2"] >>
Feeds == 1..Len(feed_configs)

-----------------------------------------------------------------------------
(* RSSPoller: pure parts *)

\* The second "if" written as "elif": If-Modified-Since only without an etag.
request_headers_elif(etags, last_modified, url) ==
    IF url \in DOMAIN etags
    THEN [x \in {"If-None-Match"} |-> etags[url]]
    ELSE IF url \in DOMAIN last_modified
    THEN [x \in {"If-Modified-Since"} |-> last_modified[url]]
    ELSE << >>

\* fetch_feed, lines 48-54: the conditional headers of a request for url
request_headers(etags, last_modified, url) ==
    (IF url \in DOMAIN etags
     THEN [x \in {"If-None-Match"} |-> etags[url]] ELSE << >>)
    @@
    (IF url \in DOMAIN last_modified
     THEN [x \in {"If-Modified-Since"} |-> last_modified[url]] ELSE << >>)

\* self.etags[url] = response.headers['ETag'], if the header is there
store_etag(etags, url, headers) ==
    IF "ETag" \in DOMAIN headers.d
    THEN [x \in DOMAIN etags \cup {url} |->
            IF x = url THEN headers.d["ETag"] ELSE etags[x]]
    ELSE etags

\* self.last_modified[url] = response.headers['Last-Modified'], if there
store_last_modified(last_modified, url, headers) ==
    IF "Last-Modified" \in DOMAIN headers.d
    THEN [x \in DOMAIN last_modified \cup {url} |->
            IF x = url THEN headers.d["Last-Modified"] ELSE last_modified[x]]
    ELSE last_modified

\* What fetch_feed returns (or raises).
Fetched(content, was_modified) ==
    [raised |-> FALSE, content |-> content, was_modified |-> was_modified]

\* The validators stored before the status is looked at.
on_response_store_first(etags, last_modified, url, status, headers) ==
    [etags |-> store_etag(etags, url, headers),
     last_modified |-> store_last_modified(last_modified, url, headers),
     ret |-> IF status = 200 THEN "body" ELSE "none"]

\* fetch_feed, lines 58-70: a response has arrived.  ret = "none": return
\* (None, False); ret = "body": go on to read the body.
on_response(etags, last_modified, url, status, headers) ==
    IF status = 304
    THEN [etags |-> etags, last_modified |-> last_modified, ret |-> "none"]
    ELSE IF status # 200
    THEN [etags |-> etags, last_modified |-> last_modified, ret |-> "none"]
    ELSE [etags |-> store_etag(etags, url, headers),
          last_modified |-> store_last_modified(last_modified, url, headers),
          ret |-> "body"]

\* fetch_feed, lines 75-80: both except clauses return (None, False)
on_exception(e) == Fetched(NoContent, FALSE)

\* feedparser.parse(content).entries
parse_entries(content) == content.entries

\* "not content": None or the empty string
Falsy(content) == content.none \/ content.text = ""

\* The loop left at the first entry that is already known.
RECURSIVE entries_loop_break(_, _, _, _)
entries_loop_break(acc, entries, k, name) ==
    IF k > Len(entries) THEN acc
    ELSE LET r == handle_rss_entry(acc.seen, entries[k], name)
             acc2 == [seen |-> r.seen, out |-> acc.out \o r.out,
                      handled |-> Append(acc.handled, r.outcome),
                      raised |-> r.outcome = "raised"]
         IN  IF acc2.raised \/ r.outcome = "dropped" THEN acc2
             ELSE entries_loop_break(acc2, entries, k + 1, name)

\* The entries taken from the last to the first.
RECURSIVE entries_loop_reversed(_, _, _, _)
entries_loop_reversed(acc, entries, k, name) ==
    IF k > Len(entries) THEN acc
    ELSE LET r == handle_rss_entry(acc.seen, entries[Len(entries) + 1 - k], name)
             acc2 == [seen |-> r.seen, out |-> acc.out \o r.out,
                      handled |-> Append(acc.handled, r.outcome),
                      raised |-> r.outcome = "raised"]
         IN  IF acc2.raised THEN acc2
             ELSE entries_loop_reversed(acc2, entries, k + 1, name)

\* check_feed_for_updates, lines 90-91: handle_rss_entry for each entry in
\* document order.  handled lists the terminal state of each entry.
RECURSIVE entries_loop(_, _, _, _)
entries_loop(acc, entries, k, name) ==
    IF k > Len(entries) THEN acc
    ELSE LET r == handle_rss_entry(acc.seen, entries[k], name)
             acc2 == [seen |-> r.seen, out |-> acc.out \o r.out,
                      handled |-> Append(acc.handled, r.outcome),
                      raised |-> r.outcome = "raised"]
         IN  IF acc2.raised THEN acc2    \* an exception would end the loop
             ELSE entries_loop(acc2, entries, k + 1, name)

\* check_feed_for_updates, lines 83-91, given what fetch_feed produced
check_feed_for_updates(seen, fetched, name) ==
    LET nothing == [seen |-> seen, out |-> << >>, handled |-> << >>,
                    raised |-> fetched.raised]
    IN  IF fetched.raised \/ Falsy(fetched.content) THEN nothing
        ELSE entries_loop([nothing EXCEPT !.raised = FALSE],
                          parse_entries(fetched.content), 1, name)

\* check_all_feeds, line 102: gather(*tasks, return_exceptions=True) hands
\* exceptions back as results and never raises one itself.
gather_raises(task_raised) == FALSE

-----------------------------------------------------------------------------
(* State *)

VARIABLES
    seen_incidents,   \* EventHandler.seen_incidents
    output,           \* the events printed so far, in order
    tasks,            \* background tasks handed over by the endpoints
    responses,        \* status codes returned by the endpoints, in order
    requests,         \* per push request: what it was and what it caused
    etags,            \* RSSPoller.etags
    last_modified,    \* RSSPoller.last_modified
    session,          \* RSSPoller.session is not None
    running,          \* RSSPoller.running
    pl_pc,            \* position of poll_loop
    cycle,            \* number of check_all_feeds calls started
    feeds,            \* per feed: position and result of its task in the cycle
    last200,          \* per URL: validators of the most recent 200 response
    call,             \* a direct call of a function that is about to be made
    log               \* the direct calls made so far and what they returned

vars == << seen_incidents, output, tasks, responses, requests, etags,
           last_modified, session, running, pl_pc, cycle, feeds, last200,
           call, log >>

handler_vars == << seen_incidents, output >>
push_vars == << tasks, responses, requests >>
call_vars == << call, log >>
poll_vars == << etags, last_modified, session, running, pl_pc, cycle, feeds,
                last200 >>

\* no direct call is waiting
NoCall == [fn |-> "none"]

\* the entry of url in a per-URL dict, if any
Restrict(d, url) == [x \in DOMAIN d \cap {url} |-> d[x]]

\* A feed task.  pc: its position ("idle", "created": handed to gather and
\* not yet started, "requested": awaiting the response, "reading": awaiting
\* the body, "done").  sent: the headers of
\* its request.  before: the revalidation state of its URL when fetch_feed
\* was called.  cause: how the fetch ended ("304", "http", "request",
\* "body", "200").  fetched: what fetch_feed returned.  handled: terminal
\* states of the entries given to handle_rss_entry.  raised: the task ended
\* with an exception.
IdleFeed == [pc |-> "idle", sent |-> << >>, before |-> << << >>, << >> >>,
             cause |-> "", fetched |-> Fetched(NoContent, FALSE),
             handled |-> << >>, raised |-> FALSE]

InitProgram ==
    /\ seen_incidents = {}
    /\ output = << >>
    /\ tasks = << >>
    /\ responses = << >>
    /\ requests = << >>
    /\ etags = << >>
    /\ last_modified = << >>
    /\ session = FALSE
    /\ running = TRUE
    /\ pl_pc = "start"
    /\ cycle = 0
    /\ feeds = [i \in Feeds |-> IdleFeed]
    /\ last200 = [etag |-> << >>, lm |-> << >>]

Init ==
    /\ InitProgram
    /\ call = NoCall
    /\ log = << >>

-----------------------------------------------------------------------------
(* webhook_server: endpoints and background task *)

Pending(ts) == { k \in 1..Len(ts) : ts[k].outcome = "pending" }

\* A background task.  verified records what the verifier says about the
\* request, and backlog how many earlier tasks were still waiting when this
\* one was handed over; the program keeps neither.
NewTask(provider, event_data, verified, backlog) ==
    [provider |-> provider, event_data |-> event_data, verified |-> verified,
     backlog |-> backlog, outcome |-> "pending"]

\* What is remembered of a push request: whether its body was JSON and the
\* number of background tasks before and after the endpoint ran.  The
\* program keeps none of it.
Request(body, before, after) ==
    [valid |-> body.valid, before |-> before, after |-> after]

\* The endpoint with add_task moved above the parse of the body.
receive_task_first(body, provider, verified) ==
    /\ tasks' = Append(tasks, NewTask(provider, body.json, verified,
                                      Cardinality(Pending(tasks))))
    /\ responses' = Append(responses, IF body.valid THEN 200 ELSE 400)
    /\ requests' = Append(requests, Request(body, Len(tasks), Len(tasks')))

\* Both endpoints: 400 for a body that is not JSON, otherwise hand the parsed
\* body to a background task and answer 200.  The endpoint reads the
\* signature headers but does not call a verifier.
receive(body, provider, verified) ==
    /\ IF ~body.valid
       THEN /\ responses' = Append(responses, 400)
            /\ tasks' = tasks
       ELSE /\ tasks' = Append(tasks, NewTask(provider, body.json, verified,
                                              Cardinality(Pending(tasks))))
            /\ responses' = Append(responses, 200)
    /\ requests' = Append(requests, Request(body, Len(tasks), Len(tasks')))

Verdict(v) == ~v.raised /\ v.value

ReceiveIncidentIo ==
    /\ Len(responses) < MaxPush
    /\ \E body \in PushBodies, now \in Clock :
         \E hdrs \in SvixHeaders(body, now) :
            LET webhook_id == Get(hdrs, "webhook-id", None)
                webhook_timestamp == Get(hdrs, "webhook-timestamp", None)
                webhook_signature == Get(hdrs, "webhook-signature", None)
            IN  receive(body, "incident.io",
                        Verdict(verify_svix_signature(Bytes(body.raw), webhook_id,
                                    webhook_timestamp, webhook_signature,
                                    SharedSecret, now)))
    /\ UNCHANGED << call_vars, handler_vars, poll_vars >>

ReceiveGeneric ==
    /\ Len(responses) < MaxPush
    /\ \E body \in PushBodies, provider_name \in ProviderNames :
         \E hdrs \in GenericHeaders(body) :
            LET x_signature == PyOr(Get(hdrs, "X-Signature", None),
                                    Get(hdrs, "X-Hub-Signature-256", None))
            IN  receive(body, provider_name,
                        Verdict(verify_hmac_signature(Bytes(body.raw), x_signature,
                                                      SharedSecret)))
    /\ UNCHANGED << call_vars, handler_vars, poll_vars >>

\* process_webhook_async: one background task runs handle_webhook_event.
ProcessWebhook(k) ==
    /\ tasks[k].outcome = "pending"
    /\ LET r == handle_webhook_event(seen_incidents, tasks[k].event_data,
                                     tasks[k].provider)
       IN  /\ seen_incidents' = r.seen
           /\ output' = output \o r.out
           /\ tasks' = [tasks EXCEPT ![k].outcome = r.outcome]
    /\ UNCHANGED << call_vars, responses, requests, poll_vars >>

-----------------------------------------------------------------------------
(* RSSPoller: actions *)

\* check_all_feeds up to the point where it suspends in gather (line 102):
\* the session exists, one task per feed is scheduled and none has started.
check_all_feeds ==
    /\ session' = TRUE
    /\ cycle' = cycle + 1
    /\ pl_pc' = "cycle"
    /\ feeds' = [i \in Feeds |-> [IdleFeed EXCEPT !.pc = "created"]]
    /\ UNCHANGED << call_vars, handler_vars, push_vars, etags, last_modified, running,
                    last200 >>

\* A feed task starts: check_feed_for_updates calls fetch_feed, which builds
\* the request headers from the validators stored now and suspends in
\* session.get (lines 47-57).  The tasks start in the order of feed_configs.
StartFeed(i) ==
    /\ feeds[i].pc = "created"
    /\ \A j \in Feeds : j < i => feeds[j].pc # "created"
    /\ feeds' = [feeds EXCEPT
                   ![i].pc = "requested",
                   ![i].sent = request_headers(etags, last_modified,
                                               feed_configs[i].url),
                   ![i].before = << Restrict(etags, feed_configs[i].url),
                                    Restrict(last_modified, feed_configs[i].url) >>]
    /\ UNCHANGED << call_vars, handler_vars, push_vars, etags, last_modified, session,
                    running, pl_pc, cycle, last200 >>

\* poll_loop, line 109: the first cycle
PollStart ==
    /\ pl_pc = "start"
    /\ check_all_feeds

\* close_session and return from poll_loop
poll_exit ==
    /\ session' = FALSE
    /\ pl_pc' = "stopped"
    /\ UNCHANGED << call_vars, handler_vars, push_vars, etags, last_modified, running,
                    cycle, feeds, last200 >>

\* fetch_feed returns (or raises) and check_feed_for_updates runs to its end
finish_fetch(i, fetched, cause) ==
    LET r == check_feed_for_updates(seen_incidents, fetched,
                                    feed_configs[i].name)
    IN  /\ seen_incidents' = r.seen
        /\ output' = output \o r.out
        /\ feeds' = [feeds EXCEPT ![i].pc = "done", ![i].cause = cause,
                                  ![i].fetched = fetched,
                                  ![i].handled = r.handled,
                                  ![i].raised = r.raised]

\* A response arrives.  A 304 answers only a conditional request.
Response(i) ==
    /\ feeds[i].pc = "requested"
    /\ \E status \in Statuses, headers \in ResponseHeaders :
         LET url == feed_configs[i].url
             r == on_response(etags, last_modified, url, status, headers)
         IN  /\ status = 304 => DOMAIN feeds[i].sent # {}
             /\ etags' = r.etags
             /\ last_modified' = r.last_modified
             /\ last200' =
                  IF status # 200 THEN last200
                  ELSE [etag |-> IF "ETag" \in DOMAIN headers.d
                                 THEN [x \in DOMAIN last200.etag \cup {url} |->
                                         IF x = url THEN headers.d["ETag"]
                                         ELSE last200.etag[x]]
                                 ELSE last200.etag,
                        lm |-> IF "Last-Modified" \in DOMAIN headers.d
                               THEN [x \in DOMAIN last200.lm \cup {url} |->
                                       IF x = url THEN headers.d["Last-Modified"]
                                       ELSE last200.lm[x]]
                               ELSE last200.lm]
             /\ IF r.ret = "none"
                THEN finish_fetch(i, Fetched(NoContent, FALSE),
                                  IF status = 304 THEN "304" ELSE "http")
                ELSE /\ feeds' = [feeds EXCEPT ![i].pc = "reading"]
                     /\ UNCHANGED handler_vars
    /\ UNCHANGED << call_vars, push_vars, session, running, pl_pc, cycle >>

\* timeout or transport failure before a response arrives
RequestFail(i) ==
    /\ feeds[i].pc = "requested"
    /\ \E e \in {"TimeoutError", "ClientError"} :
         finish_fetch(i, on_exception(e), "request")
    /\ UNCHANGED << call_vars, push_vars, etags, last_modified, session, running, pl_pc,
                    cycle, last200 >>

\* the body arrives: fetch_feed returns (content, True)
BodyRead(i) ==
    /\ feeds[i].pc = "reading"
    /\ \E content \in Docs : finish_fetch(i, Fetched(content, TRUE), "200")
    /\ UNCHANGED << call_vars, push_vars, etags, last_modified, session, running, pl_pc,
                    cycle, last200 >>

\* timeout or transport failure while the body is read
BodyFail(i) ==
    /\ feeds[i].pc = "reading"
    /\ \E e \in {"TimeoutError", "ClientPayloadError"} :
         finish_fetch(i, on_exception(e), "body")
    /\ UNCHANGED << call_vars, push_vars, etags, last_modified, session, running, pl_pc,
                    cycle, last200 >>

\* gather returns: back in poll_loop, at the test of the while loop
EndCycle ==
    /\ pl_pc = "cycle"
    /\ \A i \in Feeds : feeds[i].pc = "done"
    /\ ~gather_raises([i \in Feeds |-> feeds[i].raised])
    /\ IF running
       THEN /\ pl_pc' = "sleep"
            /\ UNCHANGED << call_vars, handler_vars, push_vars, etags, last_modified,
                            session, running, cycle, feeds, last200 >>
       ELSE poll_exit

\* The wake-up without the test of self.running (lines 115-116).
Wake_unchecked ==
    /\ pl_pc = "sleep"
    /\ cycle < MaxCycles
    /\ pl_pc' = "woken"
    /\ UNCHANGED << call_vars, handler_vars, push_vars, etags, last_modified,
                    session, running, cycle, feeds, last200 >>

\* The sleep ends and self.running is tested (lines 113-116).  Cycles are
\* counted up to MaxCycles.
Wake ==
    /\ pl_pc = "sleep"
    /\ IF running
       THEN /\ cycle < MaxCycles
            /\ pl_pc' = "woken"
            /\ UNCHANGED << call_vars, handler_vars, push_vars, etags, last_modified,
                            session, running, cycle, feeds, last200 >>
       ELSE poll_exit

\* poll_loop, line 118: the next cycle, after the test of line 115 passed
NextCycle ==
    /\ pl_pc = "woken"
    /\ check_all_feeds

\* RSSPoller.stop, called by the signal handler
Stop ==
    /\ running
    /\ pl_pc # "stopped"
    /\ running' = FALSE
    /\ UNCHANGED << call_vars, handler_vars, push_vars, etags, last_modified, session,
                    pl_pc, cycle, feeds, last200 >>

-----------------------------------------------------------------------------
(* Specifications *)

NextPush ==
    \/ ReceiveIncidentIo
    \/ ReceiveGeneric
    \/ \E k \in 1..Len(tasks) : ProcessWebhook(k)

NextPoll ==
    \/ PollStart
    \/ \E i \in Feeds : StartFeed(i)
    \/ \E i \in Feeds : Response(i)
    \/ \E i \in Feeds : RequestFail(i)
    \/ \E i \in Feeds : BodyRead(i)
    \/ \E i \in Feeds : BodyFail(i)
    \/ EndCycle
    \/ Wake
    \/ NextCycle
    \/ Stop

Next == NextPush \/ NextPoll

\* the whole monitor
Spec == Init /\ [][Next]_vars
\* the webhook receiver alone (the poller never started)
SpecPush == Init /\ [][NextPush]_vars
\* the poller alone (no push request arrives)
SpecPoll == Init /\ [][NextPoll]_vars

\* The whole monitor in a reduced environment: correctly signed requests to
\* the generic endpoint, one push request fewer than MaxPush, feeds that
\* answer 200 without validators or fail before answering, no stop signal.
CrossBodies == {Body_flat_a, Body_numname_a, Body_strcomp_a}

CrossEnv ==
    /\ Len(responses) < MaxPush
    /\ \A k \in 1..Len(tasks) :
          /\ tasks[k].event_data \in {b.json : b \in CrossBodies}
          /\ tasks[k].verified
    /\ etags = << >>
    /\ last_modified = << >>
    /\ \A i \in Feeds : feeds[i].cause # "http"

NextCross ==
    \/ ReceiveGeneric /\ CrossEnv'
    \/ (\E k \in 1..Len(tasks) : ProcessWebhook(k)) /\ CrossEnv'
    \/ PollStart /\ CrossEnv'
    \/ (\E i \in Feeds : StartFeed(i)) /\ CrossEnv'
    \/ (\E i \in Feeds : Response(i)) /\ CrossEnv'
    \/ (\E i \in Feeds : RequestFail(i)) /\ CrossEnv'
    \/ (\E i \in Feeds : BodyRead(i)) /\ CrossEnv'
    \/ EndCycle /\ CrossEnv'
    \/ Wake /\ CrossEnv'
    \/ NextCycle /\ CrossEnv'

SpecCross == Init /\ [][NextCross]_vars

\* The poller with feeds that send no validators, under the scheduling the
\* event loop guarantees: a scheduled task starts; a request ends within the session's total
\* timeout (with a response or a failure), so does the read of a body; the
\* sleep ends; gather returns once every feed task is done.  No assumption
\* is made about the stop signal.
StopEnv ==
    /\ etags = << >>
    /\ last_modified = << >>

NextStop ==
    \/ PollStart /\ StopEnv'
    \/ (\E i \in Feeds : StartFeed(i)) /\ StopEnv'
    \/ (\E i \in Feeds : Response(i)) /\ StopEnv'
    \/ (\E i \in Feeds : RequestFail(i)) /\ StopEnv'
    \/ (\E i \in Feeds : BodyRead(i)) /\ StopEnv'
    \/ (\E i \in Feeds : BodyFail(i)) /\ StopEnv'
    \/ EndCycle /\ StopEnv'
    \/ Wake /\ StopEnv'
    \/ NextCycle /\ StopEnv'
    \/ Stop /\ StopEnv'

SpecStop ==
    /\ Init
    /\ [][NextStop]_vars
    /\ WF_vars(PollStart /\ StopEnv')
    /\ \A i \in Feeds :
          /\ WF_vars(StartFeed(i) /\ StopEnv')
          /\ WF_vars((Response(i) \/ RequestFail(i)) /\ StopEnv')
          /\ WF_vars((BodyRead(i) \/ BodyFail(i)) /\ StopEnv')
    /\ WF_vars(EndCycle /\ StopEnv')
    /\ WF_vars(Wake /\ StopEnv')
    /\ WF_vars(NextCycle /\ StopEnv')

-----------------------------------------------------------------------------
(* Direct calls of the verifiers and of the push normalizer *)

\* a bytes value that is not valid UTF-8
BadBytes == [t |-> "bytes", utf8 |-> FALSE, v |-> "xff"]

\* a field that the payload does not have
Absent == [t |-> "absent"]

\* offsets of the claimed timestamp from the current time
Skews == {0 - ReplayWindow - 1, 0 - ReplayWindow, 0, ReplayWindow,
          ReplayWindow + 1}

\* The webhook-signature header a sender builds: the expected signature as
\* second token, behind another version label, behind a label with a byte
\* outside ASCII, alone, replaced by another value, in first position,
\* replaced by a value with a byte outside ASCII, or no header.
SvixKinds == {"v1,good", "v2,good", "v8,good", "good", "v1,forged", "good,v1",
              "nonascii", "none"}

SvixSignature(kind, good) ==
    LET csv(q, ascii) == [t |-> "csv", q |-> q, ascii |-> ascii]
    IN  CASE kind = "v1,good" -> csv(<< "v1", good >>, << TRUE, TRUE >>)
          [] kind = "v2,good" -> csv(<< "v2", good >>, << TRUE, TRUE >>)
          [] kind = "v8,good" -> csv(<< "v8", good >>, << FALSE, TRUE >>)
          [] kind = "good" -> csv(<< good >>, << TRUE >>)
          [] kind = "v1,forged" -> csv(<< "v1", "forged" >>, << TRUE, TRUE >>)
          [] kind = "good,v1" -> csv(<< good, "v1" >>, << TRUE, TRUE >>)
          [] kind = "nonascii" -> csv(<< "v1", "forged8" >>, << TRUE, FALSE >>)
          [] OTHER -> None

\* Calls of verify_svix_signature.  The sender signs with SharedSecret; kind
\* records how the header was built.
SvixCallsAt(now) ==
    { [fn |-> "verify_svix_signature", payload |-> p, webhook_id |-> id,
       webhook_timestamp |-> ts,
       webhook_signature |->
           SvixSignature(kind, Hmac(SharedSecret,
                                    Str(id) \o "." \o Str(ts) \o "." \o p.v)),
       secret |-> secret, current_time |-> now, kind |-> kind] :
        p \in {Bytes("p1"), BadBytes},
        id \in {JStr("msg1"), None},
        ts \in { NumStr(now + d) : d \in Skews } \cup {None, JStr("abc")},
        kind \in SvixKinds,
        secret \in {SharedSecret, "other"} }

SvixCalls == UNION { SvixCallsAt(now) : now \in Clock }

HmacKinds == {"good", "sha256=good", "forged", "nonascii", "none"}

HmacSignature(kind, good) ==
    CASE kind = "good" -> [t |-> "sig", prefix |-> "", rest |-> good, ascii |-> TRUE]
      [] kind = "sha256=good" ->
            [t |-> "sig", prefix |-> "sha256=", rest |-> good, ascii |-> TRUE]
      [] kind = "forged" -> [t |-> "sig", prefix |-> "", rest |-> "forged", ascii |-> TRUE]
      [] kind = "nonascii" ->
            [t |-> "sig", prefix |-> "", rest |-> "forged8", ascii |-> FALSE]
      [] OTHER -> None

\* Calls of verify_hmac_signature.
HmacCalls ==
    { [fn |-> "verify_hmac_signature", payload |-> p,
       signature |-> HmacSignature(kind, Hmac(SharedSecret, p.v)),
       secret |-> secret, kind |-> kind] :
        p \in {Bytes("p1"), BadBytes},
        kind \in HmacKinds,
        secret \in {SharedSecret, "other"} }

\* values a payload may give for status and for severity
StatusValues == {Absent, JStr("resolved"), JInt("3"),
                 JDict([label |-> JStr("Resolved")]), JDict(<< >>)}
SeverityValues == {Absent, JStr("major"),
                   JDict([label |-> JStr("Major")]), JDict(<< >>)}

\* the dict with key k, unless the value is absent
Field(k, x) == IF x = Absent THEN << >> ELSE [y \in {k} |-> x]

\* Calls of _normalize_webhook_data with the incident at the top level or
\* under data.incident.
NormalizeCalls ==
    { [fn |-> "_normalize_webhook_data",
       event_data |->
           LET incident == JDict([y \in {"id"} |-> JStr("a")]
                                 @@ Field("status", st) @@ Field("severity", sv))
           IN  IF nested
               THEN JDict([y \in {"data"} |->
                             JDict([z \in {"incident"} |-> incident])])
               ELSE incident,
       source_name |-> "acme", status |-> st, severity |-> sv] :
        st \in StatusValues, sv \in SeverityValues, nested \in BOOLEAN }

DirectCalls == SvixCalls \cup HmacCalls \cup NormalizeCalls

InitCalls ==
    /\ InitProgram
    /\ call \in DirectCalls
    /\ log = << >>

\* a call and what it returned or raised
Logged(c, ret) == [call |-> c, ret |-> ret]

VerifySvix ==
    /\ call.fn = "verify_svix_signature"
    /\ log' = Append(log, Logged(call,
                  verify_svix_signature(call.payload, call.webhook_id,
                      call.webhook_timestamp, call.webhook_signature,
                      call.secret, call.current_time)))
    /\ call' = NoCall
    /\ UNCHANGED << handler_vars, push_vars, poll_vars >>

VerifyHmac ==
    /\ call.fn = "verify_hmac_signature"
    /\ log' = Append(log, Logged(call,
                  verify_hmac_signature(call.payload, call.signature,
                                        call.secret)))
    /\ call' = NoCall
    /\ UNCHANGED << handler_vars, push_vars, poll_vars >>

NormalizeWebhook ==
    /\ call.fn = "_normalize_webhook_data"
    /\ log' = Append(log, Logged(call,
                  normalize_webhook_data(call.event_data, call.source_name)))
    /\ call' = NoCall
    /\ UNCHANGED << handler_vars, push_vars, poll_vars >>

NextCalls ==
    \/ VerifySvix
    \/ VerifyHmac
    \/ NormalizeWebhook

\* one direct call of a verifier or of the push normalizer
SpecCalls == InitCalls /\ [][NextCalls]_vars

-----------------------------------------------------------------------------
(* Direct calls of the EventHandler methods and of the status endpoints *)

\* the entry Entry_noid met again with another link and description
Entry_noid_moved == JDict([title |-> JStr("t3"), published |-> JStr("d3"),
                           link |-> JStr("l2"), description |-> JStr("later")])
Doc_3 == [none |-> FALSE, text |-> "x3", entries |-> << Entry_noid_moved >>]

HandlerIds == {JStr("a"), None, JList(<< >>)}
HandlerBodies == {Body_flat_a, Body_numname_a, Body_noid}
HandlerEntries == {Entry_a, Entry_noid, Entry_noid_moved, Entry_listid,
                   Entry_emptyid}
HandlerDocs == {Doc_1, Doc_2, Doc_3}

\* A call, what it returned or raised, and the identities it passed to
\* mark_seen.
LoggedCall(c, ret, marked) == [call |-> c, ret |-> ret, marked |-> marked]

CallIsSeen ==
    /\ Len(log) < MaxCalls
    /\ \E incident_id \in HandlerIds :
         log' = Append(log, LoggedCall(
                    [fn |-> "is_seen", incident_id |-> incident_id],
                    is_seen(seen_incidents, incident_id), {}))
    /\ UNCHANGED << call, handler_vars, push_vars, poll_vars >>

\* set.add raises TypeError on an unhashable identity
CallMarkSeen ==
    /\ Len(log) < MaxCalls
    /\ \E incident_id \in HandlerIds :
         LET c == [fn |-> "mark_seen", incident_id |-> incident_id]
         IN  IF Hashable(incident_id)
             THEN /\ seen_incidents' = mark_seen(seen_incidents, incident_id)
                  /\ log' = Append(log, LoggedCall(c, Ok(None), {incident_id}))
             ELSE /\ seen_incidents' = seen_incidents
                  /\ log' = Append(log, LoggedCall(c, Raise("TypeError"), {}))
    /\ UNCHANGED << call, output, push_vars, poll_vars >>

CallHandleWebhook ==
    /\ Len(log) < MaxCalls
    /\ \E body \in HandlerBodies :
         LET r == handle_webhook_event(seen_incidents, body.json, "acme")
         IN  /\ seen_incidents' = r.seen
             /\ output' = output \o r.out
             /\ log' = Append(log, LoggedCall(
                          [fn |-> "handle_webhook_event", event_data |-> body.json],
                          [outcome |-> r.outcome, out |-> r.out],
                          r.seen \ seen_incidents))
    /\ UNCHANGED << call, push_vars, poll_vars >>

CallHandleRss ==
    /\ Len(log) < MaxCalls
    /\ \E entry \in HandlerEntries :
         LET r == handle_rss_entry(seen_incidents, entry, "OpenAI")
         IN  /\ seen_incidents' = r.seen
             /\ output' = output \o r.out
             /\ log' = Append(log, LoggedCall(
                          [fn |-> "handle_rss_entry", entry |-> entry],
                          [outcome |-> r.outcome, out |-> r.out],
                          r.seen \ seen_incidents))
    /\ UNCHANGED << call, push_vars, poll_vars >>

\* one pass of check_feed_for_updates over a document that was fetched
CallCheckFeed ==
    /\ Len(log) < MaxCalls
    /\ \E content \in HandlerDocs :
         LET r == check_feed_for_updates(seen_incidents, Fetched(content, TRUE),
                                         "OpenAI")
         IN  /\ seen_incidents' = r.seen
             /\ output' = output \o r.out
             /\ log' = Append(log, LoggedCall(
                          [fn |-> "check_feed_for_updates", content |-> content],
                          [handled |-> r.handled, out |-> r.out, raised |-> r.raised],
                          r.seen \ seen_incidents))
    /\ UNCHANGED << call, push_vars, poll_vars >>

\* GET /health: "seen_incidents": len(event_handler.seen_incidents)
health_check ==
    /\ Len(log) < MaxCalls
    /\ log' = Append(log, LoggedCall([fn |-> "health_check"],
                                     Ok(Cardinality(seen_incidents)), {}))
    /\ UNCHANGED << call, handler_vars, push_vars, poll_vars >>

\* GET /stats: "seen_incidents_count": len(event_handler.seen_incidents)
stats ==
    /\ Len(log) < MaxCalls
    /\ log' = Append(log, LoggedCall([fn |-> "stats"],
                                     Ok(Cardinality(seen_incidents)), {}))
    /\ UNCHANGED << call, handler_vars, push_vars, poll_vars >>

NextHandler ==
    \/ CallIsSeen
    \/ CallMarkSeen
    \/ CallHandleWebhook
    \/ CallHandleRss
    \/ CallCheckFeed
    \/ health_check
    \/ stats

\* the EventHandler and the status endpoints called directly
SpecHandler == Init /\ [][NextHandler]_vars

-----------------------------------------------------------------------------
(* Vocabulary of the properties *)

\* the id a push payload carries ('' when it carries none)
CarriedId(event_data) ==
    LET data == Get(event_data, "data", event_data)
        incident == Get(data, "incident", data)
    IN  Get(incident, "id", JStr(""))

\* the push payload can be normalized
Normalizable(event_data) == ~normalize_webhook_data(event_data, "x").raised

\* number of events printed for an identity
Emissions(id) == Cardinality({ n \in 1..Len(output) : output[n].id = id })

TasksWith(outcome) == { k \in 1..Len(tasks) : tasks[k].outcome = outcome }

Done(k) == tasks[k].outcome # "pending"

FeedUrl(i) == feed_configs[i].url

\* the fetch of feed i failed: bad status, timeout or transport failure
FetchFailed(i) ==
    feeds[i].pc = "done" /\ feeds[i].cause \in {"http", "request", "body"}

\* the fetch of feed i returned changed content
FetchChanged(i) == feeds[i].pc = "done" /\ feeds[i].fetched.was_modified

-----------------------------------------------------------------------------
(* Properties *)

\* C1: when N >= 2 pushes carrying the same non-empty id are all in flight
\* together (each was handed over while all earlier ones were still
\* waiting) and have all been handled, exactly one was emitted and the
\* other N-1 were dropped as duplicates.
C1_ConcurrentArrival ==
    LET N == Len(tasks)
    IN  ( /\ N >= 2
          /\ \A k \in 1..N :
                /\ CarriedId(tasks[k].event_data) = CarriedId(tasks[1].event_data)
                /\ Normalizable(tasks[k].event_data)
                /\ tasks[k].backlog = k - 1
                /\ Done(k)
          /\ Truthy(CarriedId(tasks[1].event_data)) )
        => /\ Cardinality(TasksWith("emitted")) = 1
           /\ Cardinality(TasksWith("dropped")) = N - 1

\* C2: a handled push payload and a handled poll entry that share an id
\* yield exactly one emission for that id between them.
C2_CrossOriginDedup ==
    \A k \in 1..Len(tasks) : \A i \in Feeds :
        \A p \in 1..Len(feeds[i].handled) :
            LET entry == parse_entries(feeds[i].fetched.content)[p]
                id == normalize_rss_data(entry, feed_configs[i].name).value.id
            IN  ( /\ Done(k)
                  /\ Normalizable(tasks[k].event_data)
                  /\ CarriedId(tasks[k].event_data) = id )
                => Emissions(id) = 1

\* C3: a push item whose signature does not verify is never emitted.
C3_UnverifiedNeverEmitted ==
    \A k \in 1..Len(tasks) : ~tasks[k].verified => tasks[k].outcome # "emitted"

\* C4: a push payload without an id ends in the error state, the empty
\* string never enters the dedup set and no emitted event has an empty id.
C4_MissingIdIsError ==
    /\ \A k \in 1..Len(tasks) :
          (Done(k) /\ CarriedId(tasks[k].event_data) = JStr(""))
          => tasks[k].outcome = "error"
    /\ JStr("") \notin seen_incidents
    /\ \A n \in 1..Len(output) : output[n].id # JStr("")

\* C5: a payload submitted again after its first submission was handled is
\* dropped as a duplicate, and the two submissions yield exactly one
\* emission.
C5_ResubmissionIdempotent ==
    \A j \in 1..Len(tasks) : \A k \in 1..Len(tasks) :
        ( /\ j < k
          /\ tasks[j].event_data = tasks[k].event_data
          /\ Normalizable(tasks[k].event_data)
          /\ tasks[k].backlog = 0
          /\ Done(k) )
        => /\ tasks[k].outcome = "dropped"
           /\ Emissions(CarriedId(tasks[k].event_data)) = 1

\* C6: a fetch answered by 304 returns (None, False), changes the stored
\* etag and last_modified of no URL, and has no entry normalized, marked or
\* emitted.
C6_NotModifiedNoEffect ==
    [][\A i \in Feeds :
          (feeds[i].pc = "requested" /\ feeds'[i].cause = "304")
          => /\ feeds'[i].pc = "done"
             /\ feeds'[i].fetched = Fetched(NoContent, FALSE)
             /\ feeds'[i].handled = << >>
             /\ etags' = etags
             /\ last_modified' = last_modified
             /\ seen_incidents' = seen_incidents
             /\ output' = output]_vars

C6_Witness ==
    \E i \in Feeds : feeds[i].pc = "done" /\ feeds[i].cause = "304"

\* C7: the stored validators of every URL are those of the most recent 200
\* response for that URL that carried them, and a request in flight for a
\* URL carries If-None-Match / If-Modified-Since exactly for the validators
\* that URL has, each independently of the other.
C7_ConditionalHeaders ==
    /\ etags = last200.etag
    /\ last_modified = last200.lm
    /\ \A i \in Feeds :
          feeds[i].pc = "requested"
          => /\ ("If-None-Match" \in DOMAIN feeds[i].sent)
                  = (FeedUrl(i) \in DOMAIN last200.etag)
             /\ ("If-Modified-Since" \in DOMAIN feeds[i].sent)
                  = (FeedUrl(i) \in DOMAIN last200.lm)
             /\ "If-None-Match" \in DOMAIN feeds[i].sent
                  => feeds[i].sent["If-None-Match"] = last200.etag[FeedUrl(i)]
             /\ "If-Modified-Since" \in DOMAIN feeds[i].sent
                  => feeds[i].sent["If-Modified-Since"] = last200.lm[FeedUrl(i)]

C7_Witness ==
    \E i \in Feeds : \E j \in Feeds :
        /\ feeds[i].pc = "requested"
        /\ DOMAIN feeds[i].sent = {"If-None-Match", "If-Modified-Since"}
        /\ feeds[i].sent["If-None-Match"] = "e2"
        /\ feeds[j].pc = "requested"
        /\ DOMAIN feeds[j].sent = {"If-None-Match"}
        /\ feeds[j].sent["If-None-Match"] = "e1"

\* C8: a fetch that fails (bad status, timeout, transport failure, also
\* while the body is read) returns (None, False) without raising and leaves
\* the stored etag and last_modified of its URL as they were before the call.
C8_FailedFetchKeepsState ==
    \A i \in Feeds :
        FetchFailed(i)
        => /\ feeds[i].fetched = Fetched(NoContent, FALSE)
           /\ Restrict(etags, FeedUrl(i)) = feeds[i].before[1]
           /\ Restrict(last_modified, FeedUrl(i)) = feeds[i].before[2]

\* C9: every feed whose fetch returned changed content has each of its
\* entries passed through handle_rss_entry, whatever happened to the other
\* feeds of the cycle, and the cycle ends without raising.
C9_FeedIsolation ==
    /\ \A i \in Feeds :
          FetchChanged(i)
          => Len(feeds[i].handled) = Len(parse_entries(feeds[i].fetched.content))
    /\ (\A i \in Feeds : feeds[i].pc = "done")
          => ~gather_raises([i \in Feeds |-> feeds[i].raised])

C9_Witness ==
    \E i \in Feeds : \E j \in Feeds :
        /\ FetchFailed(i)
        /\ FetchChanged(j)
        /\ Len(feeds[j].handled) = 2
        /\ pl_pc = "sleep"

\* C10: an exception while one item is processed leaves that item in the
\* error state and never leaves the handler: no background task and no
\* feed task ends with an exception, and the entries after an entry in
\* error are still processed.
C10_ItemErrorIsolated ==
    /\ \A k \in 1..Len(tasks) : tasks[k].outcome # "raised"
    /\ \A i \in Feeds :
          /\ ~feeds[i].raised
          /\ \A p \in 1..Len(feeds[i].handled) :
                /\ feeds[i].handled[p] # "raised"
                /\ feeds[i].handled[p] = "error"
                     => Len(feeds[i].handled)
                          = Len(parse_entries(feeds[i].fetched.content))

C10_Witness ==
    /\ \E k \in 1..Len(tasks) : tasks[k].outcome = "error"
    /\ \E i \in Feeds : feeds[i].handled = << "error", "emitted" >>
    /\ pl_pc = "sleep"
    /\ cycle = 2

\* C11: every push request with a JSON body is answered 200 and hands over
\* exactly one background task, whatever that task does later (pending,
\* emitted, dropped or error); a request whose body is not JSON is answered
\* 400 and no task is created for it.
C11_AckIndependent ==
    /\ Len(requests) = Len(responses)
    /\ \A n \in 1..Len(requests) :
          IF requests[n].valid
          THEN /\ responses[n] = 200
               /\ requests[n].after = requests[n].before + 1
               /\ requests[n].after \in 1..Len(tasks)
               /\ tasks[requests[n].after].outcome
                    \in {"pending", "emitted", "dropped", "error"}
          ELSE /\ responses[n] = 400
               /\ requests[n].after = requests[n].before
    /\ Len(tasks) = Cardinality({ n \in 1..Len(requests) : requests[n].valid })
    /\ \A k \in 1..Len(tasks) : tasks[k].event_data # None

C11_Witness ==
    /\ Len(requests) = 2
    /\ requests[1].valid /\ responses[1] = 200 /\ tasks[1].outcome = "error"
    /\ ~requests[2].valid /\ responses[2] = 400
    /\ Len(tasks) = 1

\* C12: verify_svix_signature called with the sender's secret and a header
\* whose designated element is the expected signature returns true exactly
\* when |current_time - webhook_timestamp| <= 300; called with a signature
\* that differs from the expected one (another value, a value with a byte
\* outside ASCII, the wrong position, or signed with another secret) it
\* returns false whatever the timestamp.
C12_ReplayWindow ==
    \A n \in 1..Len(log) :
        LET c == log[n].call
        IN  ( /\ c.fn = "verify_svix_signature"
              /\ c.webhook_timestamp.t = "numstr"
              /\ c.payload.utf8
              /\ c.kind # "none" )
            => IF c.secret = SharedSecret
                  /\ c.kind \in {"v1,good", "v2,good", "v8,good", "good"}
               THEN log[n].ret =
                      Ok(Abs(c.current_time - c.webhook_timestamp.n) <= 300)
               ELSE log[n].ret = Ok(FALSE)

\* C13: no call of verify_svix_signature or verify_hmac_signature raises,
\* and a call with a missing signature or timestamp, a timestamp that is
\* not a number, a payload that is not UTF-8 or a signature with a byte
\* outside ASCII returns false.  (A missing id is not malformed for the
\* code: it is signed as the text "None".)
C13_VerifierNeverThrows ==
    \A n \in 1..Len(log) :
        LET c == log[n].call
        IN  /\ c.fn \in {"verify_svix_signature", "verify_hmac_signature"}
               => /\ ~log[n].ret.raised
                  /\ log[n].ret.value \in BOOLEAN
            /\ ( /\ c.fn = "verify_svix_signature"
                 /\ \/ c.kind \in {"none", "nonascii"}
                    \/ c.webhook_timestamp.t # "numstr"
                    \/ ~c.payload.utf8 )
               => log[n].ret = Ok(FALSE)
            /\ ( /\ c.fn = "verify_hmac_signature"
                 /\ c.kind \in {"none", "nonascii"} )
               => log[n].ret = Ok(FALSE)

\* C15: _normalize_webhook_data returns, for status and for severity alike,
\* the label of a structured record, the string itself for a plain string,
\* and "Unknown" (status) or the empty string (severity) when the field is
\* absent, whether the incident is at the top level or under data.incident.
C15_StatusSeverityUnwrapped ==
    \A n \in 1..Len(log) :
        LET c == log[n].call
            r == log[n].ret
            Unwrapped(x, default, result) ==
                /\ (x.t = "dict" /\ "label" \in DOMAIN x.d) => result = x.d["label"]
                /\ x.t = "str" => result = x
                /\ x = Absent => result = JStr(default)
        IN  c.fn = "_normalize_webhook_data"
            => /\ ~r.raised
               /\ Unwrapped(c.status, "Unknown", r.value.status)
               /\ Unwrapped(c.severity, "", r.value.severity)

\* number of entries among the first p that were emitted
EmittedUpTo(handled, p) ==
    Cardinality({ m \in 1..p : handled[m] = "emitted" })

\* C14: when two poll passes each handle an entry without id and guid, and
\* the two entries have the same title and published strings (whatever else
\* differs), the second pass finds the identity of the first: its entry is
\* dropped and nothing is emitted for it.
C14_FallbackIdentityStable ==
    \A j \in 1..Len(log) : \A k \in 1..Len(log) :
        ( /\ j < k
          /\ log[j].call.fn = "check_feed_for_updates"
          /\ log[k].call.fn = "check_feed_for_updates" )
        => \A p \in 1..Len(log[j].ret.handled) :
           \A q \in 1..Len(log[k].ret.handled) :
              LET e1 == parse_entries(log[j].call.content)[p]
                  e2 == parse_entries(log[k].call.content)[q]
              IN  ( /\ DOMAIN e1.d \cap {"id", "guid"} = {}
                    /\ DOMAIN e2.d \cap {"id", "guid"} = {}
                    /\ Get(e1, "title", JStr("")) = Get(e2, "title", JStr(""))
                    /\ Get(e1, "published", JStr("")) = Get(e2, "published", JStr("")) )
                  => /\ log[k].ret.handled[q] = "dropped"
                     /\ log[j].ret.handled[p] = "emitted"
                          => \A n \in 1..Len(log[k].ret.out) :
                                log[k].ret.out[n].id
                                  # log[j].ret.out[EmittedUpTo(log[j].ret.handled, p)].id

C14_Witness ==
    /\ Len(log) >= 2
    /\ log[1].call = [fn |-> "check_feed_for_updates", content |-> Doc_2]
    /\ log[1].ret.handled = << "emitted", "emitted" >>
    /\ log[2].call = [fn |-> "check_feed_for_updates", content |-> Doc_3]
    /\ log[2].ret.handled = << "dropped" >>
    /\ log[2].ret.out = << >>

\* the identities passed to mark_seen by the calls made so far
MarkedSoFar(l) == UNION { l[n].marked : n \in 1..Len(l) }

\* C19: no call removes an identity from the dedup set; is_seen leaves the
\* set as it is and answers membership; mark_seen adds its identity and
\* changes nothing when the identity is already there; /health and /stats
\* report the number of distinct identities marked so far.
C19_DedupSetGrows ==
    [][ /\ seen_incidents \subseteq seen_incidents'
        /\ Len(log') > Len(log)
           => LET e == log'[Len(log')]
              IN  /\ e.call.fn = "is_seen"
                     => /\ seen_incidents' = seen_incidents
                        /\ Hashable(e.call.incident_id)
                             => e.ret = Ok(e.call.incident_id \in seen_incidents)
                  /\ (e.call.fn = "mark_seen" /\ Hashable(e.call.incident_id))
                     => /\ seen_incidents' = seen_incidents \cup {e.call.incident_id}
                        /\ e.call.incident_id \in seen_incidents
                             => seen_incidents' = seen_incidents
                  /\ e.call.fn \in {"health_check", "stats"}
                     => /\ seen_incidents' = seen_incidents
                        /\ e.ret = Ok(Cardinality(MarkedSoFar(log)))
                  /\ seen_incidents' = MarkedSoFar(log') ]_vars

C19_Witness ==
    /\ Len(log) = 3
    /\ log[1].call.fn = "handle_rss_entry" /\ log[1].ret.outcome = "emitted"
    /\ log[2].call.fn = "mark_seen" /\ log[2].call.incident_id \in log[1].marked
    /\ log[3].call.fn = "stats" /\ log[3].ret = Ok(1)

\* C16: the identities in the dedup set are exactly the identities of the
\* events emitted (no handler is ever part-way through an item between two
\* steps), and a push item that ended in the error state has left no
\* identity in the set that no emitted item accounts for.
C16_AllOrNothing ==
    /\ seen_incidents = { output[n].id : n \in 1..Len(output) }
    /\ \A k \in 1..Len(tasks) :
          (tasks[k].outcome = "error" /\ Normalizable(tasks[k].event_data))
          => \/ CarriedId(tasks[k].event_data) \notin seen_incidents
             \/ \E j \in 1..Len(tasks) :
                   /\ tasks[j].outcome = "emitted"
                   /\ CarriedId(tasks[j].event_data)
                        = CarriedId(tasks[k].event_data)

\* C17: when a fetch has replaced the stored entity tag or last-modified
\* value of its URL by those of a new document version, the fetch returned
\* that document and every entry of it was passed to handle_rss_entry; so a
\* later 304 can only stand for a version whose entries were processed.
C17_NoVersionSkipped ==
    \A i \in Feeds :
        ( /\ feeds[i].pc = "done"
          /\ \/ Restrict(etags, FeedUrl(i)) # feeds[i].before[1]
             \/ Restrict(last_modified, FeedUrl(i)) # feeds[i].before[2] )
        => /\ FetchChanged(i)
           /\ Len(feeds[i].handled)
                = Len(parse_entries(feeds[i].fetched.content))

\* C20: when the task of a feed handles a fetched document, entry p is
\* handled on the state entries 1..p-1 left behind (its outcome is error
\* for an unhashable identity, dropped when the identity is in the set as
\* those entries left it, emitted otherwise) and the events appear in the
\* output in document order; nothing is said about the order of the feeds.
C20_EntriesInOrder ==
    [][ \A i \in Feeds :
          ( /\ feeds[i].pc # "done"
            /\ feeds'[i].pc = "done"
            /\ feeds'[i].fetched.was_modified )
          => LET es == parse_entries(feeds'[i].fetched.content)
                 id(p) == normalize_rss_data(es[p], feed_configs[i].name).value.id
                 SeenBefore(p) ==
                     seen_incidents
                       \cup { id(q) : q \in { r \in 1..(p - 1) : Hashable(id(r)) } }
                 outcome(p) == IF ~Hashable(id(p)) THEN "error"
                               ELSE IF id(p) \in SeenBefore(p) THEN "dropped"
                               ELSE "emitted"
                 IsEmitted(p) == outcome(p) = "emitted"
                 emitted == SelectSeq([p \in 1..Len(es) |-> p], IsEmitted)
             IN  /\ feeds'[i].handled = [p \in 1..Len(es) |-> outcome(p)]
                 /\ Len(output') = Len(output) + Len(emitted)
                 /\ \A n \in 1..Len(emitted) :
                       /\ output'[Len(output) + n].id = id(emitted[n])
                       /\ output'[Len(output) + n].source = feed_configs[i].name
                 /\ seen_incidents' = SeenBefore(Len(es) + 1) ]_vars

C20_Witness ==
    /\ feeds[1].pc = "done" /\ feeds[1].handled = << "emitted", "emitted" >>
    /\ feeds[2].pc = "done" /\ feeds[2].handled = << "error", "emitted" >>
    /\ Len(output) = 3
    /\ output[1].source = "Feed2"
    /\ output[2].source = "OpenAI" /\ output[2].id = JStr(Md5("t3d3"))
    /\ output[3].source = "OpenAI" /\ output[3].id = JStr("a")

\* C18 as stated: once stop() has been called no check_all_feeds call
\* begins, poll_loop never returns while a fetch is in flight, and it
\* eventually returns with the session closed.
C18_CleanStop ==
    /\ [][~running => cycle' = cycle]_vars
    /\ [](pl_pc = "stopped"
            => (~session /\ \A i \in Feeds : feeds[i].pc \in {"idle", "done"}))
    /\ (~running ~> (pl_pc = "stopped" /\ ~session))

\* C18 amended: once stop() has been called, a check_all_feeds call begins
\* only where poll_loop does not test self.running before it: the first
\* call (line 109), or the call of line 118 when stop() came after the test
\* of line 115 had passed.  A wake-up that finds self.running false starts
\* no cycle; poll_loop never returns while a fetch is in flight, and it
\* eventually returns with the session closed.
C18_CleanStopAfterTest ==
    /\ [][(~running /\ cycle' # cycle) => pl_pc \in {"start", "woken"}]_vars
    /\ [][(~running /\ pl_pc = "sleep") => pl_pc' \in {"sleep", "stopped"}]_vars
    /\ [](pl_pc = "stopped"
            => (~session /\ cycle >= 1
                /\ \A i \in Feeds : feeds[i].pc = "done"))
    /\ (~running ~> (pl_pc = "stopped" /\ ~session))

C18_Witness ==
    /\ ~running
    /\ pl_pc = "stopped"
    /\ ~session
    /\ cycle = 2
    /\ \E i \in Feeds : feeds[i].cause = "200" /\ Len(feeds[i].handled) = 2

====
